---- MODULE Spec2Model ----
(***************************************************************************)
(* A model of formhandler.go: GetFormContentWithConfig, the content-type   *)
(* negotiation, the three decoders (JSON, URL encoded, multipart) and      *)
(* reduceUnansweredFields.                                                 *)
(*                                                                         *)
(* Text (header values, bodies, field names, values) is TLA+ strings, read *)
(* one byte at a time as the Go code and its decoders read them.           *)
(* The body alphabet has no backslash and no control characters.           *)
(***************************************************************************)
EXTENDS Integers, Sequences, FiniteSets, TLC

(***************************************************************************)
(* Constants of formhandler.go                                             *)
(***************************************************************************)
headerValFormURLEncoded == "application/x-www-form-urlencoded"
headerValApplicationJSON == "application/json"
headerValFormMultipart == "multipart/form-data"
megabyte == 1048576

StatusBadRequest == 400
StatusRequestEntityTooLarge == 413
StatusUnsupportedMediaType == 415
StatusInternalServerError == 500

(***************************************************************************)
(* Strings                                                                 *)
(***************************************************************************)
Ch(s, i) == SubSeq(s, i, i)

Min(a, b) == IF a < b THEN a ELSE b

\* strings.HasPrefix
HasPrefix(s, prefix) ==
    /\ Len(s) >= Len(prefix)
    /\ SubSeq(s, 1, Len(prefix)) = prefix

(***************************************************************************)
(* Content negotiation                                                     *)
(***************************************************************************)
\* isMultipartFormHeader comparing by equality, as the other checks do
isMultipartFormHeaderExact(contentType) == contentType = headerValFormMultipart

isMultipartFormHeader(contentType) == HasPrefix(contentType, headerValFormMultipart)

getContentType(header) ==
    IF isMultipartFormHeader(header) THEN headerValFormMultipart ELSE header

(***************************************************************************)
(* ParseError, and the error interface value it is returned through.       *)
(* A *ParseError is either the nil pointer or points to a ParseError.      *)
(* An error interface value is a pair (dynamic type, pointer); it equals   *)
(* nil only when it has no dynamic type.                                   *)
(***************************************************************************)
NoField == "<none>"

ParseError(status, msg, field, offset) ==
    [nilptr |-> FALSE, Status |-> status, Msg |-> msg, Field |-> field, Offset |-> offset]

NilParseError ==
    [nilptr |-> TRUE, Status |-> 0, Msg |-> "", Field |-> NoField, Offset |-> 0]

NilError == [typ |-> "nil", ptr |-> NilParseError]

\* the conversion of a *ParseError to the error interface in an assignment
ToError(perr) == [typ |-> "*ParseError", ptr |-> perr]

\* the caller's test `err != nil`
ErrNotNil(e) == e.typ # "nil"

(***************************************************************************)
(* Go maps: the nil map and made maps are different values.                *)
(***************************************************************************)
EmptyFcn == [k \in {} |-> 0]
NilMap == [nil |-> TRUE, m |-> EmptyFcn]
MkMap(f) == [nil |-> FALSE, m |-> f]
MapLen(mp) == Cardinality(DOMAIN mp.m)

(***************************************************************************)
(* JSON values as encoding/json decodes them into interface{}:             *)
(* string, float64 (number), bool, nil (null), []interface{} (array) and   *)
(* map[string]interface{} (object).                                        *)
(***************************************************************************)
JStr(s) == [t |-> "string", s |-> s, a |-> <<>>, o |-> <<>>, m |-> EmptyFcn]
JNum(s) == [t |-> "number", s |-> s, a |-> <<>>, o |-> <<>>, m |-> EmptyFcn]
JBool(s) == [t |-> "bool", s |-> s, a |-> <<>>, o |-> <<>>, m |-> EmptyFcn]
JNull == [t |-> "null", s |-> "", a |-> <<>>, o |-> <<>>, m |-> EmptyFcn]
JArr(a) == [t |-> "array", s |-> "", a |-> a, o |-> <<>>, m |-> EmptyFcn]
JObj(m) == [t |-> "object", s |-> "", a |-> <<>>, o |-> <<>>, m |-> m]

(***************************************************************************)
(* The scanner of encoding/json, one byte at a time over the bytes that    *)
(* the reader delivered.  A scan ends in one of                            *)
(*   "ok"     the value ended; pos is the first byte after it              *)
(*   "syntax" a byte the grammar does not allow; off counts the bytes read *)
(*            up to and including it (SyntaxError.Offset)                  *)
(*   "need"   the bytes ran out inside the value; endable says that a      *)
(*            space byte would end the value (a number at top level)       *)
(***************************************************************************)
ROk(v, p) == [st |-> "ok", val |-> v, pos |-> p, off |-> 0, endable |-> FALSE]
RSyntax(off) == [st |-> "syntax", val |-> JNull, pos |-> 0, off |-> off, endable |-> FALSE]
RNeed(v, endable) == [st |-> "need", val |-> v, pos |-> 0, off |-> 0, endable |-> endable]

isSpace(c) == c = " "

Digits == {"0", "1", "5"}

RECURSIVE SkipSpace(_, _)
SkipSpace(s, i) ==
    IF i <= Len(s) /\ isSpace(Ch(s, i)) THEN SkipSpace(s, i + 1) ELSE i

\* the bytes of a string literal after its opening quote
RECURSIVE ScanString(_, _, _)
ScanString(s, i, acc) ==
    IF i > Len(s) THEN RNeed(JNull, FALSE)
    ELSE IF Ch(s, i) = "\"" THEN ROk(JStr(acc), i + 1)
    ELSE ScanString(s, i + 1, acc \o Ch(s, i))

\* the bytes of true, false, null after the first
RECURSIVE ScanLiteral(_, _, _, _)
ScanLiteral(s, i, rest, v) ==
    IF rest = "" THEN ROk(v, i)
    ELSE IF i > Len(s) THEN RNeed(JNull, FALSE)
    ELSE IF Ch(s, i) # Ch(rest, 1) THEN RSyntax(i)
    ELSE ScanLiteral(s, i + 1, SubSeq(rest, 2, Len(rest)), v)

\* the bytes of a number after the first digit; state is the scanner state:
\* "0" (state0), "1" (state1), "dot" (stateDot), "dot0" (stateDot0)
RECURSIVE ScanNumber(_, _, _, _)
ScanNumber(s, i, acc, state) ==
    LET complete == state \in {"0", "1", "dot0"} IN
    IF i > Len(s) THEN RNeed(JNum(acc), complete)
    ELSE LET c == Ch(s, i) IN
         CASE state = "1" /\ c \in Digits -> ScanNumber(s, i + 1, acc \o c, "1")
           [] state \in {"0", "1"} /\ c = "." -> ScanNumber(s, i + 1, acc \o c, "dot")
           [] state \in {"dot", "dot0"} /\ c \in Digits -> ScanNumber(s, i + 1, acc \o c, "dot0")
           [] OTHER -> IF complete THEN ROk(JNum(acc), i) ELSE RSyntax(i)

RECURSIVE ScanValue(_, _)
RECURSIVE ScanMembers(_, _, _, _)
RECURSIVE ScanElements(_, _, _, _)

\* stateBeginValue
ScanValue(s, i0) ==
    LET i == SkipSpace(s, i0) IN
    IF i > Len(s) THEN RNeed(JNull, FALSE)
    ELSE LET c == Ch(s, i) IN
         CASE c = "{" -> ScanMembers(s, i + 1, EmptyFcn, TRUE)
           [] c = "[" -> ScanElements(s, i + 1, <<>>, TRUE)
           [] c = "\"" -> ScanString(s, i + 1, "")
           [] c = "0" -> ScanNumber(s, i + 1, c, "0")
           [] c \in Digits \ {"0"} -> ScanNumber(s, i + 1, c, "1")
           [] c = "t" -> ScanLiteral(s, i + 1, "rue", JBool("true"))
           [] c = "f" -> ScanLiteral(s, i + 1, "alse", JBool("false"))
           [] c = "n" -> ScanLiteral(s, i + 1, "ull", JNull)
           [] OTHER -> RSyntax(i)

\* the members of an object after "{" (first) or after "," (not first);
\* a repeated key keeps the value of its last member
ScanMembers(s, i0, m, first) ==
    LET i == SkipSpace(s, i0) IN
    IF i > Len(s) THEN RNeed(JNull, FALSE)
    ELSE IF first /\ Ch(s, i) = "}" THEN ROk(JObj(m), i + 1)
    ELSE IF Ch(s, i) # "\"" THEN RSyntax(i)
    ELSE LET key == ScanString(s, i + 1, "") IN
         IF key.st # "ok" THEN key
         ELSE LET j == SkipSpace(s, key.pos) IN
              IF j > Len(s) THEN RNeed(JNull, FALSE)
              ELSE IF Ch(s, j) # ":" THEN RSyntax(j)
              ELSE LET v == ScanValue(s, j + 1) IN
                   IF v.st = "need" THEN RNeed(JNull, FALSE)
                   ELSE IF v.st # "ok" THEN v
                   ELSE LET k == SkipSpace(s, v.pos)
                            m2 == (key.val.s :> v.val) @@ m
                        IN  IF k > Len(s) THEN RNeed(JNull, FALSE)
                            ELSE IF Ch(s, k) = "," THEN ScanMembers(s, k + 1, m2, FALSE)
                            ELSE IF Ch(s, k) = "}" THEN ROk(JObj(m2), k + 1)
                            ELSE RSyntax(k)

\* the elements of an array after "[" (first) or after "," (not first)
ScanElements(s, i0, a, first) ==
    LET i == SkipSpace(s, i0) IN
    IF i > Len(s) THEN RNeed(JNull, FALSE)
    ELSE IF first /\ Ch(s, i) = "]" THEN ROk(JArr(a), i + 1)
    ELSE LET v == ScanValue(s, i) IN
         IF v.st = "need" THEN RNeed(JNull, FALSE)
         ELSE IF v.st # "ok" THEN v
         ELSE LET k == SkipSpace(s, v.pos)
                  a2 == Append(a, v.val)
              IN  IF k > Len(s) THEN RNeed(JNull, FALSE)
                  ELSE IF Ch(s, k) = "," THEN ScanElements(s, k + 1, a2, FALSE)
                  ELSE IF Ch(s, k) = "]" THEN ROk(JArr(a2), k + 1)
                  ELSE RSyntax(k)

\* a scalar at top level ends only on the byte after it (stateEndTop), so at
\* the end of the delivered bytes it still waits for one more byte
ScanTop(s, i) ==
    LET r == ScanValue(s, i) IN
    IF r.st = "ok" /\ r.val.t \in {"string", "bool", "null"} /\ r.pos > Len(s)
    THEN RNeed(r.val, TRUE)
    ELSE r

(***************************************************************************)
(* http.MaxBytesReader(w, r.Body, n): the reader delivers the first n      *)
(* bytes of the body; the read that would pass n fails with                *)
(* "http: request body too large", and the error is sticky.  A body of at  *)
(* most n bytes ends with io.EOF.                                          *)
(***************************************************************************)
MaxBytesData(body, n) == SubSeq(body, 1, Min(Len(body), n))

\* a reader that fails as soon as n bytes are read
MaxBytesErrAtCeiling(body, n) == IF Len(body) >= n THEN "too large" ELSE "EOF"

MaxBytesErr(body, n) == IF Len(body) > n THEN "too large" ELSE "EOF"

nonSpace(s) == \E i \in 1..Len(s) : ~isSpace(Ch(s, i))

(***************************************************************************)
(* json.Decoder.Decode: readValue scans the next value from the bytes at   *)
(* scanp on, consulting the reader's error only when the delivered bytes   *)
(* run out, then unmarshals the value into the target.                     *)
(* target "map" is map[string]interface{}, target "struct" is struct{}.    *)
(* err is "nil", "syntax", "unexpected EOF", "EOF", "too large" or         *)
(* "unmarshal type" (json.UnmarshalTypeError).                             *)
(***************************************************************************)
DecodeResult(err, off, val, scanp) == [err |-> err, off |-> off, val |-> val, scanp |-> scanp]

Unmarshal(v, target) ==
    CASE v.t = "object" -> "nil"
      [] v.t = "null" -> "nil"
      [] OTHER -> "unmarshal type"

Decode(data, readErr, scanp, target) ==
    LET r == ScanTop(data, scanp)
        end == Len(data) + 1
    IN  CASE r.st = "syntax" -> DecodeResult("syntax", r.off, JNull, scanp)
          [] r.st = "ok" -> DecodeResult(Unmarshal(r.val, target), 0, r.val, r.pos)
          [] r.st = "need" /\ readErr # "EOF" -> DecodeResult(readErr, 0, JNull, scanp)
          [] r.st = "need" /\ readErr = "EOF" /\ r.endable ->
                DecodeResult(Unmarshal(r.val, target), 0, r.val, end)
          [] r.st = "need" /\ readErr = "EOF" /\ ~r.endable ->
                IF nonSpace(SubSeq(data, scanp, Len(data)))
                THEN DecodeResult("unexpected EOF", 0, JNull, scanp)
                ELSE DecodeResult("EOF", 0, JNull, scanp)

\* jsonContent after a Decode without error: the object's map, or the nil
\* map when the value was null
DecodedMap(v) == IF v.t = "object" THEN MkMap(v.m) ELSE NilMap

\* the switch without its cases for io.ErrUnexpectedEOF and io.EOF
FirstDecodeErrorNoEOF(d) ==
    CASE d.err = "syntax" ->
            ParseError(StatusBadRequest, "Request body contains badly-formed JSON (at position %d)", NoField, d.off)
      [] d.err = "too large" ->
            ParseError(StatusRequestEntityTooLarge, "Request body too large", NoField, 0)
      [] OTHER ->
            ParseError(StatusInternalServerError, "JSON parsing error", NoField, 0)

\* the ParseError parseApplicationJSON returns for the first Decode's error
FirstDecodeError(d) ==
    CASE d.err = "syntax" ->
            ParseError(StatusBadRequest, "Request body contains badly-formed JSON (at position %d)", NoField, d.off)
      [] d.err = "unexpected EOF" ->
            ParseError(StatusBadRequest, "Request body contains badly-formed JSON", NoField, 0)
      [] d.err = "EOF" ->
            ParseError(StatusBadRequest, "Request body must not be empty", NoField, 0)
      [] d.err = "too large" ->
            ParseError(StatusRequestEntityTooLarge, "Request body too large", NoField, 0)
      [] OTHER ->
            ParseError(StatusInternalServerError, "JSON parsing error", NoField, 0)

SingleObjectError ==
    ParseError(StatusBadRequest, "Request body must only contain a single JSON object", NoField, 0)

NoFieldsError ==
    ParseError(StatusBadRequest, "JSON object contains no fields", NoField, 0)

EmptyStringError(key) ==
    ParseError(StatusBadRequest, "JSON object contains invalid value for field \"%s\", cannot use an empty string", key, 0)

EmptyArrayError(key) ==
    ParseError(StatusBadRequest, "JSON object contains invalid value for field \"%s\", cannot use an empty array", key, 0)

InvalidArrayError(key) ==
    ParseError(StatusBadRequest, "JSON object contains invalid array for field \"%s\", array values must be exclusively strings", key, 0)

InvalidValueError(key) ==
    ParseError(StatusBadRequest, "JSON object contains invalid value for field \"%s\", values must be string or []string types", key, 0)

\* the loop without its default case
FieldErrorNoDefault(key, value) ==
    CASE value.t = "string" ->
            IF value.s = "" THEN EmptyStringError(key) ELSE NilParseError
      [] value.t = "array" ->
            IF Len(value.a) = 0 THEN EmptyArrayError(key)
            ELSE IF \E i \in 1..Len(value.a) : value.a[i].t # "string" THEN InvalidArrayError(key)
            ELSE NilParseError
      [] OTHER -> NilParseError

\* the loop without the checks of the array case
FieldErrorAnyArray(key, value) ==
    CASE value.t = "string" ->
            IF value.s = "" THEN EmptyStringError(key) ELSE NilParseError
      [] value.t = "array" -> NilParseError
      [] OTHER -> InvalidValueError(key)

\* the loop without the check for the empty string
FieldErrorAnyString(key, value) ==
    CASE value.t = "string" -> NilParseError
      [] value.t = "array" ->
            IF Len(value.a) = 0 THEN EmptyArrayError(key)
            ELSE IF \E i \in 1..Len(value.a) : value.a[i].t # "string" THEN InvalidArrayError(key)
            ELSE NilParseError
      [] OTHER -> InvalidValueError(key)

\* one iteration of the range loop of parseMapInterface: the error the
\* field's value is rejected with, or the nil pointer
FieldError(key, value) ==
    CASE value.t = "string" ->
            IF value.s = "" THEN EmptyStringError(key) ELSE NilParseError
      [] value.t = "array" ->
            IF Len(value.a) = 0 THEN EmptyArrayError(key)
            ELSE IF \E i \in 1..Len(value.a) : value.a[i].t # "string" THEN InvalidArrayError(key)
            ELSE NilParseError
      [] OTHER -> InvalidValueError(key)

\* an array stored as its first element only
FieldValuesFirstOnly(value) ==
    IF value.t = "string" THEN <<value.s>>
    ELSE <<value.a[1].s>>

\* the []string stored for an accepted field
FieldValues(value) ==
    IF value.t = "string" THEN <<value.s>>
    ELSE [i \in 1..Len(value.a) |-> value.a[i].s]

(***************************************************************************)
(* net/url: QueryUnescape and ParseQuery, as Request.ParseForm uses them.  *)
(***************************************************************************)
HexDigits == {"0", "1", "2", "3", "4", "5", "6", "7", "8", "9",
              "a", "b", "c", "d", "e", "f", "A", "B", "C", "D", "E", "F"}

ishex(c) == c \in HexDigits

\* the byte a percent escape stands for; the bodies use these escapes only
unhex(h1, h2) ==
    CASE h1 = "2" /\ h2 = "6" -> "&"
      [] h1 = "3" /\ h2 \in {"D", "d"} -> "="
      [] h1 = "2" /\ h2 = "0" -> " "
      [] h1 = "7" /\ h2 = "8" -> "x"
      [] OTHER -> "?"

UOk(s) == [ok |-> TRUE, s |-> s]
UErr == [ok |-> FALSE, s |-> ""]

RECURSIVE QueryUnescape(_, _, _)
QueryUnescape(s, i, acc) ==
    IF i > Len(s) THEN UOk(acc)
    ELSE LET c == Ch(s, i) IN
         CASE c = "%" ->
                IF i + 2 > Len(s) \/ ~ishex(Ch(s, i + 1)) \/ ~ishex(Ch(s, i + 2))
                THEN UErr
                ELSE QueryUnescape(s, i + 3, acc \o unhex(Ch(s, i + 1), Ch(s, i + 2)))
           [] c = "+" -> QueryUnescape(s, i + 1, acc \o " ")
           [] OTHER -> QueryUnescape(s, i + 1, acc \o c)

\* strings.Cut: the index of the first sep in s from i on, or Len(s) + 1
RECURSIVE IndexFrom(_, _, _)
IndexFrom(s, sep, i) ==
    IF i > Len(s) THEN Len(s) + 1
    ELSE IF Ch(s, i) = sep THEN i
    ELSE IndexFrom(s, sep, i + 1)

Contains(s, c) == IndexFrom(s, c, 1) <= Len(s)

\* m[key] = append(m[key], value)
AppendValue(m, key, value) ==
    IF key \in DOMAIN m THEN [m EXCEPT ![key] = Append(@, value)]
    ELSE (key :> <<value>>) @@ m

\* url.Values and the error flag after the pairs of query from i on
RECURSIVE parseQuery(_, _, _, _)
parseQuery(query, i, m, err) ==
    IF i > Len(query) THEN [m |-> m, err |-> err]
    ELSE LET amp == IndexFrom(query, "&", i)
             pair == SubSeq(query, i, amp - 1)
             eq == IndexFrom(pair, "=", 1)
             key == QueryUnescape(SubSeq(pair, 1, eq - 1), 1, "")
             value == QueryUnescape(SubSeq(pair, eq + 1, Len(pair)), 1, "")
         IN  CASE Contains(pair, ";") -> parseQuery(query, amp + 1, m, TRUE)
               [] pair = "" -> parseQuery(query, amp + 1, m, err)
               [] ~key.ok \/ ~value.ok -> parseQuery(query, amp + 1, m, TRUE)
               [] OTHER -> parseQuery(query, amp + 1, AppendValue(m, key.s, value.s), err)

ParseQuery(query) == parseQuery(query, 1, EmptyFcn, FALSE)

\* copyValues(dst, src): for k, vs := range src { dst[k] = append(dst[k], vs...) }
copyValues(dst, src) ==
    [k \in DOMAIN dst \cup DOMAIN src |->
        (IF k \in DOMAIN dst THEN dst[k] ELSE <<>>) \o (IF k \in DOMAIN src THEN src[k] ELSE <<>>)]

(***************************************************************************)
(* Request.ParseForm on a request whose Form and PostForm are not yet set. *)
(* The body is read (through the MaxBytesReader installed on r.Body) only  *)
(* for POST, PUT and PATCH and only when the Content-Type is URL encoded;  *)
(* Form is PostForm followed by the pairs of the URL's query string.       *)
(***************************************************************************)
BodyMethods == {"POST", "PUT", "PATCH"}

parsePostForm(r, limit) ==
    IF r.method \notin BodyMethods \/ r.ct # headerValFormURLEncoded
    THEN [m |-> EmptyFcn, err |-> FALSE, read |-> FALSE]
    ELSE IF MaxBytesErr(r.body, limit) # "EOF"
    THEN [m |-> EmptyFcn, err |-> TRUE, read |-> TRUE]
    ELSE LET q == ParseQuery(r.body) IN [m |-> q.m, err |-> q.err, read |-> TRUE]

ParseForm(r, limit) ==
    LET post == parsePostForm(r, limit)
        query == ParseQuery(r.query)
    IN  [PostForm |-> post.m,
         Form |-> copyValues(post.m, query.m),
         err |-> post.err \/ query.err,
         read |-> post.read]

(***************************************************************************)
(* reduceUnansweredFields                                                  *)
(***************************************************************************)
\* the test dropping every field with an empty value among its values
UnansweredAnyEmpty(values) ==
    Len(values) = 0 \/ \E i \in 1..Len(values) : values[i] = ""

Unanswered(values) == Len(values) = 0 \/ (Len(values) = 1 /\ values[1] = "")

reduceUnansweredFields(m) ==
    [field \in {f \in DOMAIN m : ~Unanswered(m[f])} |-> m[field]]

InvalidFormError == ParseError(StatusBadRequest, "Invalid URL encoded form", NoField, 0)

\* parseFormURLEncoded: the results and the *ParseError it returns
parseFormURLEncoded(r, limit) ==
    LET f == ParseForm(r, limit) IN
    IF f.err THEN [results |-> NilMap, perr |-> InvalidFormError]
    ELSE [results |-> MkMap(reduceUnansweredFields(f.Form)), perr |-> NilParseError]

(***************************************************************************)
(* multipart/form-data.  A multipart body is the boundary it is written    *)
(* with, its parts in order (field name, filename, content) and whether    *)
(* the closing boundary line is there.  A body that is not multipart at    *)
(* all is NoMultipart.                                                     *)
(***************************************************************************)
NoMultipart == [boundary |-> "", parts |-> <<>>, closed |-> FALSE]

Part(name, filename, data) == [name |-> name, filename |-> filename, data |-> data]

\* bytes of the lines around a part: "--" boundary CRLF,
\* Content-Disposition: form-data; name="..." [; filename="..."] CRLF,
\* [Content-Type: application/octet-stream CRLF] CRLF content CRLF
PartSize(boundary, p) ==
    2 + Len(boundary) + 2
    + 38 + Len(p.name) + 1
    + (IF p.filename = "" THEN 0 ELSE 12 + Len(p.filename) + 1 + 40)
    + 2 + 2 + Len(p.data) + 2

RECURSIVE PartsSize(_, _)
PartsSize(boundary, parts) ==
    IF parts = <<>> THEN 0
    ELSE PartSize(boundary, Head(parts)) + PartsSize(boundary, Tail(parts))

\* the closing line is "--" boundary "--" CRLF
MultipartSize(mp) ==
    PartsSize(mp.boundary, mp.parts) + (IF mp.closed THEN 2 + Len(mp.boundary) + 4 ELSE 0)

BodySize(r) == IF r.mp = NoMultipart THEN Len(r.body) ELSE MultipartSize(r.mp)

\* mime.ParseMediaType: the media type is the text before the first ";"
MediaType(ct) == SubSeq(ct, 1, IndexFrom(ct, ";", 1) - 1)

\* the boundary parameter of the header value, "" when there is none
BoundaryParam(ct) ==
    LET semi == IndexFrom(ct, ";", 1)
        p == SkipSpace(ct, semi + 1)
        rest == SubSeq(ct, p, Len(ct))
    IN  IF HasPrefix(rest, "boundary=") THEN SubSeq(rest, 10, Len(rest)) ELSE ""

\* Request.multipartReader: ErrNotMultipart, ErrMissingBoundary
multipartReaderOk(ct) ==
    /\ MediaType(ct) = headerValFormMultipart
    /\ BoundaryParam(ct) # ""

FileHeader(p, spilled) == [Filename |-> p.filename, Size |-> Len(p.data), tmpfile |-> spilled]

AppendFile(m, name, fh) ==
    IF name \in DOMAIN m THEN [m EXCEPT ![name] = Append(@, fh)]
    ELSE (name :> <<fh>>) @@ m

\* multipart.Reader.ReadForm over the parts from i on: a part without a
\* field name is skipped, a part without a filename is a value, any other
\* part is a file, kept in memory while maxFileMemoryBytes lasts and
\* written to a temporary file otherwise
RECURSIVE ReadForm(_, _, _, _, _)
ReadForm(parts, i, value, file, maxFileMemoryBytes) ==
    IF i > Len(parts) THEN [Value |-> value, File |-> file]
    ELSE LET p == parts[i] IN
         CASE p.name = "" -> ReadForm(parts, i + 1, value, file, maxFileMemoryBytes)
           [] p.name # "" /\ p.filename = "" ->
                ReadForm(parts, i + 1, AppendValue(value, p.name, p.data), file, maxFileMemoryBytes)
           [] OTHER ->
                IF Len(p.data) > maxFileMemoryBytes
                THEN ReadForm(parts, i + 1, value, AppendFile(file, p.name, FileHeader(p, TRUE)),
                              maxFileMemoryBytes)
                ELSE ReadForm(parts, i + 1, value, AppendFile(file, p.name, FileHeader(p, FALSE)),
                              maxFileMemoryBytes - Len(p.data))

\* Request.ParseMultipartForm(maxMemory): ParseForm first (the URL's query
\* string; its error is returned last), then the multipart reader over the
\* body behind the MaxBytesReader
ParseMultipartForm(r, limit, maxMemory) ==
    LET pf == ParseForm(r, limit)
        readable == /\ multipartReaderOk(r.ct)
                    /\ r.mp.boundary = BoundaryParam(r.ct)
                    /\ r.mp.closed
                    /\ BodySize(r) <= limit
        f == ReadForm(r.mp.parts, 1, EmptyFcn, EmptyFcn, maxMemory)
    IN  IF ~readable THEN [err |-> TRUE, PostForm |-> EmptyFcn, File |-> EmptyFcn]
        ELSE [err |-> pf.err, PostForm |-> copyValues(pf.PostForm, f.Value), File |-> f.File]

\* parseFormMultipart with a file map that went through a reducer, which
\* drops the fields whose only file is empty
parseFormMultipartFilesReduced(r, limit, maxMemory) ==
    LET f == ParseMultipartForm(r, limit, maxMemory) IN
    IF f.err THEN [results |-> NilMap, files |-> NilMap, perr |-> InvalidFormError]
    ELSE [results |-> MkMap(reduceUnansweredFields(f.PostForm)),
          files |-> MkMap([k \in {n \in DOMAIN f.File :
                                    ~(Len(f.File[n]) = 1 /\ f.File[n][1].Size = 0)} |-> f.File[k]]),
          perr |-> NilParseError]

\* parseFormMultipart: the results, the files and the *ParseError it returns
parseFormMultipart(r, limit, maxMemory) ==
    LET f == ParseMultipartForm(r, limit, maxMemory) IN
    IF f.err THEN [results |-> NilMap, files |-> NilMap, perr |-> InvalidFormError]
    ELSE [results |-> MkMap(reduceUnansweredFields(f.PostForm)),
          files |-> MkMap(f.File),
          perr |-> NilParseError]

(***************************************************************************)
(* Requests.  JSON bodies are written from documents: a document value is  *)
(* a JSON value whose objects list their members in order, as pairs        *)
(* <<key, value>> in field o.                                              *)
(***************************************************************************)
MaxMembers == 2
MaxArrLen == 2
MaxPairs == 2
MaxParts == 2
MaxCeiling == 10

DObj(members) == [t |-> "object", s |-> "", a |-> <<>>, o |-> members, m |-> EmptyFcn]

SeqsUpTo(S, n) == UNION {[1..k -> S] : k \in 0..n}

\* the text of a document value; sp is the space written after ":" and ","
RECURSIVE Encode(_, _)
RECURSIVE EncodeList(_, _, _, _)
EncodeList(items, i, sp, isObject) ==
    IF i > Len(items) THEN ""
    ELSE (IF i > 1 THEN "," \o sp ELSE "")
         \o (IF isObject
             THEN "\"" \o items[i][1] \o "\":" \o sp \o Encode(items[i][2], sp)
             ELSE Encode(items[i], sp))
         \o EncodeList(items, i + 1, sp, isObject)

Encode(v, sp) ==
    CASE v.t = "string" -> "\"" \o v.s \o "\""
      [] v.t \in {"number", "bool"} -> v.s
      [] v.t = "null" -> "null"
      [] v.t = "array" -> "[" \o EncodeList(v.a, 1, sp, FALSE) \o "]"
      [] v.t = "object" -> "{" \o EncodeList(v.o, 1, sp, TRUE) \o "}"

Keys == {"a", "b"}

ArrElems == {JStr("x"), JStr(""), JNum("5"), JNull, JBool("true"), JArr(<<>>), DObj(<<>>)}

Arrays == {JArr(a) : a \in SeqsUpTo(ArrElems, MaxArrLen)}

Others == {JStr("x"), JStr("yz"), JStr(""), JNum("5"), JNum("1.5"), JBool("true"), JNull,
           DObj(<<>>), DObj(<<<<"a", JStr("x")>>>>)}

Values == Arrays \cup Others

CoreValues == {JStr("x"), JStr(""), JArr(<<JStr("x"), JStr("yz")>>), JArr(<<>>),
               JArr(<<JNull>>), JNum("5")}

\* documents: no member, one member with any of Values (or with the empty
\* key), or several members with values of CoreValues; keys may repeat
Docs ==
    {DObj(<<>>), DObj(<<<<"", JStr("x")>>>>)}
    \cup {DObj(<<<<k, v>>>>) : k \in Keys, v \in Values}
    \cup {DObj(ms) : ms \in SeqsUpTo(Keys \X CoreValues, MaxMembers)}

SmallDocs ==
    {DObj(<<>>)} \cup {DObj(<<<<"a", v>>>>) : v \in CoreValues}
    \cup {DObj(<<<<"a", JStr("x")>>, <<"b", v>>>>) : v \in {JStr(""), JNum("5")}}

\* what follows the first value in the body
Trailers == {" ", "  ", "{}", " {}", "{\"b\":\"x\"}", "x", "1", " \"x\"", "[", "null", " }"}

\* bodies whose first value is not an object, or that hold no value
RawBodies == {"", " ", "[]", "[\"x\"]", "\"x\"", "5", "1.5", "true", "false", "null",
              "hello world", "tru", "01", "{\"a\": value1}", "[1,]", "nullx", "5 {}"}

DefaultConfig ==
    [maxFormSize |-> megabyte, maxFormWithFilesSize |-> megabyte * 10, maxMemory |-> megabyte * 10]

Request(ct, method, query, body, mp) ==
    [ct |-> ct, method |-> method, query |-> query, body |-> body, mp |-> mp]

\* what the request was written from: kind is "json" (doc, then trailer,
\* cut to its first `cut` bytes when cut >= 0), or "raw", "header",
\* "urlencoded", "multipart"
Given(kind, doc, trailer, cut, pairs) ==
    [kind |-> kind, doc |-> doc, trailer |-> trailer, cut |-> cut, pairs |-> pairs]

Scenario(r, c, g) == [req |-> r, cfg |-> c, given |-> g]

JSONRequest(body) == Request(headerValApplicationJSON, "POST", "", body, NoMultipart)

JSONDocScenarios ==
    {Scenario(JSONRequest(Encode(d, "")), DefaultConfig, Given("json", d, "", -1, <<>>)) : d \in Docs}
    \cup
    {Scenario(JSONRequest(" " \o Encode(d, " ")), DefaultConfig, Given("json", d, "", -1, <<>>)) :
        d \in SmallDocs}

JSONTrailerScenarios ==
    {Scenario(JSONRequest(Encode(d, "") \o tr), DefaultConfig, Given("json", d, tr, -1, <<>>)) :
        d \in SmallDocs, tr \in Trailers}

JSONCutScenarios ==
    UNION {{Scenario(JSONRequest(SubSeq(Encode(d, ""), 1, n)), DefaultConfig,
                     Given("json", d, "", n, <<>>)) : n \in 0..(Len(Encode(d, "")) - 1)} :
           d \in SmallDocs}

JSONRawScenarios ==
    {Scenario(JSONRequest(b), DefaultConfig, Given("raw", JNull, "", -1, <<>>)) : b \in RawBodies}

JSONCeilingScenarios ==
    {Scenario(JSONRequest(Encode(d, "") \o tr),
              [DefaultConfig EXCEPT !.maxFormSize = n],
              Given("json", d, tr, -1, <<>>)) :
        d \in {DObj(<<>>), DObj(<<<<"a", JStr("x")>>>>), DObj(<<<<"a", JNum("5")>>>>)},
        tr \in {"", " ", "{}"},
        n \in 0..MaxCeiling}

\* url.QueryEscape of the bytes the pairs use
RECURSIVE QueryEscape(_, _)
QueryEscape(s, i) ==
    IF i > Len(s) THEN ""
    ELSE LET c == Ch(s, i) IN
         (CASE c = " " -> "+"
            [] c = "&" -> "%26"
            [] c = "=" -> "%3D"
            [] OTHER -> c) \o QueryEscape(s, i + 1)

\* key=value&key=value... in the order of the pairs
RECURSIVE EncodePairs(_, _)
EncodePairs(pairs, i) ==
    IF i > Len(pairs) THEN ""
    ELSE (IF i > 1 THEN "&" ELSE "")
         \o QueryEscape(pairs[i][1], 1) \o "=" \o QueryEscape(pairs[i][2], 1)
         \o EncodePairs(pairs, i + 1)

PairKeys == {"a", "b", ""}
PairValues == {"", "x", "& ="}
PairSeqs == SeqsUpTo(PairKeys \X PairValues, MaxPairs)

Methods == {"POST", "GET"}
Queries == {"", "a=q", "c=", "%"}

\* bodies that are not well-formed URL encoded forms, and two that are
RawForms == {"%", "a=%zz", "a=x;b=y", "a=x&b=%2", "a", "&&a=x&", "a=b=c"}

URLEncodedRequest(method, query, body) ==
    Request(headerValFormURLEncoded, method, query, body, NoMultipart)

URLEncodedScenarios ==
    {Scenario(URLEncodedRequest(meth, q, EncodePairs(ps, 1)), DefaultConfig,
              Given("urlencoded", JNull, "", -1, ps)) :
        meth \in Methods, q \in Queries, ps \in PairSeqs}
    \cup
    {Scenario(URLEncodedRequest("POST", "", b), DefaultConfig,
              Given("raw", JNull, "", -1, <<>>)) : b \in RawForms}
    \cup
    {Scenario(URLEncodedRequest("POST", "", EncodePairs(ps, 1)),
              [DefaultConfig EXCEPT !.maxFormSize = n],
              Given("urlencoded", JNull, "", -1, ps)) :
        ps \in {<<>>, <<<<"a", "x">>>>, <<<<"a", "x">>, <<"b", "">>>>}, n \in 0..MaxCeiling}

PartSet == {Part("a", "", "x"), Part("a", "", ""), Part("b", "", "yz"), Part("", "", "x"),
            Part("f", "f.txt", "data"), Part("f", "g.txt", ""), Part("g", "h.txt", "more data"),
            Part("", "n.txt", "z")}

PartSeqs == SeqsUpTo(PartSet, MaxParts)

MultipartHeader == "multipart/form-data; boundary=X"

MultipartBody(boundary, parts, closed) == [boundary |-> boundary, parts |-> parts, closed |-> closed]

MultipartRequest(ct, method, query, mp) == Request(ct, method, query, "", mp)

MultipartScenarios ==
    {Scenario(MultipartRequest(MultipartHeader, "POST", "", MultipartBody("X", ps, closed)),
              [DefaultConfig EXCEPT !.maxMemory = mem],
              Given("multipart", JNull, "", -1, <<>>)) :
        ps \in PartSeqs, closed \in BOOLEAN, mem \in {megabyte * 10, 4}}
    \cup
    {Scenario(MultipartRequest(ct, meth, q, MultipartBody(b, ps, TRUE)), DefaultConfig,
              Given("multipart", JNull, "", -1, <<>>)) :
        ct \in {MultipartHeader, "multipart/form-data;boundary=X", headerValFormMultipart,
                "multipart/form-data; charset=utf-8", "multipart/form-dataX; boundary=X"},
        meth \in Methods, q \in Queries, b \in {"X", "Y"},
        ps \in {<<>>, <<Part("a", "", "x"), Part("f", "f.txt", "data")>>}}
    \cup
    {Scenario(MultipartRequest(MultipartHeader, "POST", "", MultipartBody("X", ps, TRUE)),
              [DefaultConfig EXCEPT !.maxFormWithFilesSize = MultipartSize(MultipartBody("X", ps, TRUE)) + d],
              Given("multipart", JNull, "", -1, <<>>)) :
        ps \in {<<>>, <<Part("a", "", "x")>>}, d \in {-1, 0, 1}}

\* every prefix of the three supported header values, and other values
HeaderPrefixes ==
    UNION {{SubSeq(c, 1, n) : n \in 0..Len(c)} :
           c \in {headerValApplicationJSON, headerValFormURLEncoded, headerValFormMultipart}}

Headers ==
    HeaderPrefixes \cup
    {MultipartHeader, "multipart/form-data;boundary=X", "multipart/form-dataX",
     "multipart/mixed; boundary=X", "application/json; charset=utf-8", " application/json",
     "application/jsonx", "application/x-www-form-urlencoded; charset=utf-8",
     "text/plain", "application/fake-test-content-type"}

HeaderScenarios ==
    {Scenario(Request(ct, "POST", "", b, NoMultipart), DefaultConfig,
              Given("header", JNull, "", -1, <<>>)) :
        ct \in Headers, b \in {"{\"a\":\"x\"}", "a=x"}}
    \cup
    {Scenario(Request(ct, "POST", "", "", MultipartBody("X", <<Part("a", "", "x")>>, TRUE)),
              DefaultConfig, Given("header", JNull, "", -1, <<>>)) :
        ct \in Headers}

Scenarios ==
    JSONDocScenarios \cup JSONTrailerScenarios \cup JSONCutScenarios \cup JSONRawScenarios
    \cup JSONCeilingScenarios \cup URLEncodedScenarios \cup MultipartScenarios \cup HeaderScenarios

(***************************************************************************)
(* The state of one call of the function GetFormContentWithConfig returns. *)
(***************************************************************************)
VARIABLES
    req,          \* the request: Content-Type, method, query string, body
    cfg,          \* maxFormSize, maxFormWithFilesSize, maxMemory
    given,        \* what the request was written from
    pc,           \* the position of the call
    branch,       \* the case of the switch the call took, "none" before it
    guard,        \* the n of the MaxBytesReader on r.Body, -1 while unwrapped
    dec,          \* the json.Decoder: scanp, the first byte not yet decoded
    jsonContent,  \* the map the first Decode filled
    todo,         \* the keys the range loop of parseMapInterface has not visited
    local,        \* results inside parseMapInterface
    ret,          \* what the decoder returned: results, files, *ParseError
    results,      \* the named results of the call
    files,
    err,
    other         \* the call of the same function on another request that runs
                  \* concurrently with this one, as it stands between its steps

vars == <<req, cfg, given, pc, branch, guard, dec, jsonContent, todo, local, ret, results, files, err,
          other>>

\* no call runs concurrently
Nobody == [id |-> 0]

NoReturn == [results |-> NilMap, files |-> NilMap, perr |-> NilParseError]

Return(res, fls, perr) == [results |-> res, files |-> fls, perr |-> perr]

\* the three parameters before GetFormContent has passed them
NoConfig == [maxFormSize |-> -1, maxFormWithFilesSize |-> -1, maxMemory |-> -1]

\* a request is handled by the function GetFormContentWithConfig returned
\* for the scenario's parameters, or by GetFormContent
Init ==
    /\ \E sc \in Scenarios :
        /\ req = sc.req
        /\ \/ /\ cfg = sc.cfg
              /\ given = sc.given @@ [entry |-> "GetFormContentWithConfig"]
              /\ pc = "start"
           \/ /\ cfg = NoConfig
              /\ given = sc.given @@ [entry |-> "GetFormContent"]
              /\ pc = "GetFormContent"
    /\ branch = "none"
    /\ guard = -1
    /\ dec = 1
    /\ jsonContent = NilMap
    /\ todo = {}
    /\ local = NilMap
    /\ ret = NoReturn
    /\ results = NilMap
    /\ files = NilMap
    /\ err = NilError
    /\ other = Nobody

(***************************************************************************)
(* GetFormContent: GetFormContentWithConfig(megabyte, megabyte*10,         *)
(* megabyte*10)(w, r)                                                      *)
(***************************************************************************)
GetFormContent ==
    /\ pc = "GetFormContent"
    /\ cfg' = DefaultConfig
    /\ pc' = "start"
    /\ UNCHANGED <<other, req, given, branch, guard, dec, jsonContent, todo, local, ret, results, files, err>>

(***************************************************************************)
(* GetFormContentWithConfig: the switch on getContentType(r.Header)        *)
(***************************************************************************)
RequiredError ==
    ParseError(StatusUnsupportedMediaType, "Content-Type header is required", NoField, 0)

UnsupportedError(contentType) ==
    ParseError(StatusUnsupportedMediaType, "Content-Type header %s is unsupported", contentType, 0)

\* the switch matching application/json by prefix too
SelectedByPrefix(header) ==
    LET contentType == getContentType(header) IN
    CASE HasPrefix(contentType, headerValApplicationJSON) -> "json"
      [] contentType = headerValFormURLEncoded -> "urlencoded"
      [] contentType = headerValFormMultipart -> "multipart"
      [] contentType = "" -> "required"
      [] OTHER -> "unsupported"

\* the decoder the switch selects: "json", "urlencoded", "multipart",
\* "required" (case "") or "unsupported" (default)
Selected(header) ==
    LET contentType == getContentType(header) IN
    CASE contentType = headerValApplicationJSON -> "json"
      [] contentType = headerValFormURLEncoded -> "urlencoded"
      [] contentType = headerValFormMultipart -> "multipart"
      [] contentType = "" -> "required"
      [] OTHER -> "unsupported"

SelectJSON ==
    /\ pc = "start"
    /\ Selected(req.ct) = "json"
    /\ branch' = "json"
    /\ guard' = cfg.maxFormSize
    /\ pc' = "json_first"
    /\ UNCHANGED <<other, req, cfg, given, dec, jsonContent, todo, local, ret, results, files, err>>

SelectURLEncoded ==
    /\ pc = "start"
    /\ Selected(req.ct) = "urlencoded"
    /\ branch' = "urlencoded"
    /\ guard' = cfg.maxFormSize
    /\ pc' = "urlencoded"
    /\ UNCHANGED <<other, req, cfg, given, dec, jsonContent, todo, local, ret, results, files, err>>

\* the multipart case with the ceiling of the other two cases
SelectMultipartFormSize ==
    /\ pc = "start"
    /\ Selected(req.ct) = "multipart"
    /\ branch' = "multipart"
    /\ guard' = cfg.maxFormSize
    /\ pc' = "multipart"
    /\ UNCHANGED <<other, req, cfg, given, dec, jsonContent, todo, local, ret, results, files, err>>

SelectMultipart ==
    /\ pc = "start"
    /\ Selected(req.ct) = "multipart"
    /\ branch' = "multipart"
    /\ guard' = cfg.maxFormWithFilesSize
    /\ pc' = "multipart"
    /\ UNCHANGED <<other, req, cfg, given, dec, jsonContent, todo, local, ret, results, files, err>>

MissingContentType ==
    /\ pc = "start"
    /\ Selected(req.ct) = "required"
    /\ branch' = "required"
    /\ err' = ToError(RequiredError)
    /\ pc' = "done"
    /\ UNCHANGED <<other, req, cfg, given, guard, dec, jsonContent, todo, local, ret, results, files>>

\* the default case with r.Body wrapped before the switch
UnsupportedContentTypeWrapped ==
    /\ pc = "start"
    /\ Selected(req.ct) = "unsupported"
    /\ branch' = "unsupported"
    /\ guard' = cfg.maxFormSize
    /\ err' = ToError(UnsupportedError(getContentType(req.ct)))
    /\ pc' = "done"
    /\ UNCHANGED <<other, req, cfg, given, dec, jsonContent, todo, local, ret, results, files>>

UnsupportedContentType ==
    /\ pc = "start"
    /\ Selected(req.ct) = "unsupported"
    /\ branch' = "unsupported"
    /\ err' = ToError(UnsupportedError(getContentType(req.ct)))
    /\ pc' = "done"
    /\ UNCHANGED <<other, req, cfg, given, guard, dec, jsonContent, todo, local, ret, results, files>>

(***************************************************************************)
(* parseApplicationJSON                                                    *)
(***************************************************************************)
\* dec.Decode(&jsonContent) and the switch on its error
DecodeFirst ==
    /\ pc = "json_first"
    /\ LET d == Decode(MaxBytesData(req.body, guard), MaxBytesErr(req.body, guard), dec, "map") IN
        IF d.err # "nil"
        THEN /\ ret' = Return(NilMap, NilMap, FirstDecodeError(d))
             /\ pc' = "assign_json"
             /\ UNCHANGED <<dec, jsonContent>>
        ELSE /\ jsonContent' = DecodedMap(d.val)
             /\ dec' = d.scanp
             /\ pc' = "json_second"
             /\ UNCHANGED ret
    /\ UNCHANGED <<other, req, cfg, given, branch, guard, todo, local, results, files, err>>

\* the second Decode rejected only when it decodes a value
DecodeSecondNilOnly ==
    /\ pc = "json_second"
    /\ LET d == Decode(MaxBytesData(req.body, guard), MaxBytesErr(req.body, guard), dec, "struct") IN
        IF d.err = "nil"
        THEN /\ ret' = Return(NilMap, NilMap, SingleObjectError)
             /\ pc' = "assign_json"
             /\ UNCHANGED dec
        ELSE /\ dec' = d.scanp
             /\ pc' = "json_map"
             /\ UNCHANGED ret
    /\ UNCHANGED <<other, req, cfg, given, branch, guard, jsonContent, todo, local, results, files, err>>

\* the check of len(mapInterface) made before the second Decode
DecodeSecondAfterNoFields ==
    /\ pc = "json_second"
    /\ LET d == Decode(MaxBytesData(req.body, guard), MaxBytesErr(req.body, guard), dec, "struct") IN
        IF MapLen(jsonContent) = 0
        THEN /\ ret' = Return(NilMap, NilMap, NoFieldsError)
             /\ pc' = "assign_json"
             /\ UNCHANGED dec
        ELSE IF d.err # "EOF"
        THEN /\ ret' = Return(NilMap, NilMap, SingleObjectError)
             /\ pc' = "assign_json"
             /\ UNCHANGED dec
        ELSE /\ dec' = d.scanp
             /\ pc' = "json_map"
             /\ UNCHANGED ret
    /\ UNCHANGED <<other, req, cfg, given, branch, guard, jsonContent, todo, local, results, files, err>>

\* dec.Decode(&struct{}{}) must end with io.EOF
DecodeSecond ==
    /\ pc = "json_second"
    /\ LET d == Decode(MaxBytesData(req.body, guard), MaxBytesErr(req.body, guard), dec, "struct") IN
        IF d.err # "EOF"
        THEN /\ ret' = Return(NilMap, NilMap, SingleObjectError)
             /\ pc' = "assign_json"
             /\ UNCHANGED dec
        ELSE /\ dec' = d.scanp
             /\ pc' = "json_map"
             /\ UNCHANGED ret
    /\ UNCHANGED <<other, req, cfg, given, branch, guard, jsonContent, todo, local, results, files, err>>

(***************************************************************************)
(* parseMapInterface.  The range loop visits the keys of the map in an     *)
(* order the Go runtime chooses.                                           *)
(***************************************************************************)
\* parseMapInterface without the check of len(mapInterface)
ParseMapBeginNoCheck ==
    /\ pc = "json_map"
    /\ local' = MkMap(EmptyFcn)
    /\ todo' = DOMAIN jsonContent.m
    /\ pc' = "json_range"
    /\ UNCHANGED <<other, req, cfg, given, branch, guard, dec, jsonContent, ret, results, files, err>>

ParseMapBegin ==
    /\ pc = "json_map"
    /\ IF MapLen(jsonContent) = 0
       THEN /\ ret' = Return(NilMap, NilMap, NoFieldsError)
            /\ pc' = "assign_json"
            /\ UNCHANGED <<todo, local>>
       ELSE /\ local' = MkMap(EmptyFcn)
            /\ todo' = DOMAIN jsonContent.m
            /\ pc' = "json_range"
            /\ UNCHANGED ret
    /\ UNCHANGED <<other, req, cfg, given, branch, guard, dec, jsonContent, results, files, err>>

\* the loop passing over an invalid field while other fields are to visit
ParseMapFieldSkipping ==
    /\ pc = "json_range"
    /\ \E key \in todo :
        LET value == jsonContent.m[key]
            perr == FieldError(key, value)
        IN  IF ~perr.nilptr /\ todo = {key}
            THEN /\ ret' = Return(NilMap, NilMap, perr)
                 /\ pc' = "assign_json"
                 /\ UNCHANGED <<todo, local>>
            ELSE IF ~perr.nilptr
            THEN /\ todo' = todo \ {key}
                 /\ UNCHANGED <<ret, pc, local>>
            ELSE /\ local' = MkMap((key :> FieldValues(value)) @@ local.m)
                 /\ todo' = todo \ {key}
                 /\ UNCHANGED <<ret, pc>>
    /\ UNCHANGED <<other, req, cfg, given, branch, guard, dec, jsonContent, results, files, err>>

\* the loop returning the fields it has stored so far with the error
ParseMapFieldPartial ==
    /\ pc = "json_range"
    /\ \E key \in todo :
        LET value == jsonContent.m[key]
            perr == FieldError(key, value)
        IN  IF ~perr.nilptr
            THEN /\ ret' = Return(local, NilMap, perr)
                 /\ pc' = "assign_json"
                 /\ UNCHANGED <<todo, local>>
            ELSE /\ local' = MkMap((key :> FieldValues(value)) @@ local.m)
                 /\ todo' = todo \ {key}
                 /\ UNCHANGED <<ret, pc>>
    /\ UNCHANGED <<other, req, cfg, given, branch, guard, dec, jsonContent, results, files, err>>

ParseMapField ==
    /\ pc = "json_range"
    /\ \E key \in todo :
        LET value == jsonContent.m[key]
            perr == FieldError(key, value)
        IN  IF ~perr.nilptr
            THEN /\ ret' = Return(NilMap, NilMap, perr)
                 /\ pc' = "assign_json"
                 /\ UNCHANGED <<todo, local>>
            ELSE /\ local' = MkMap((key :> FieldValues(value)) @@ local.m)
                 /\ todo' = todo \ {key}
                 /\ UNCHANGED <<ret, pc>>
    /\ UNCHANGED <<other, req, cfg, given, branch, guard, dec, jsonContent, results, files, err>>

ParseMapEnd ==
    /\ pc = "json_range"
    /\ todo = {}
    /\ ret' = Return(local, NilMap, NilParseError)
    /\ pc' = "assign_json"
    /\ UNCHANGED <<other, req, cfg, given, branch, guard, dec, jsonContent, todo, local, results, files, err>>

(***************************************************************************)
(* The other two decoders                                                  *)
(***************************************************************************)
ParseFormURLEncoded ==
    /\ pc = "urlencoded"
    /\ LET r == parseFormURLEncoded(req, guard) IN
        ret' = Return(r.results, NilMap, r.perr)
    /\ pc' = "assign_urlencoded"
    /\ UNCHANGED <<other, req, cfg, given, branch, guard, dec, jsonContent, todo, local, results, files, err>>

ParseFormMultipart ==
    /\ pc = "multipart"
    /\ ret' = parseFormMultipart(req, guard, cfg.maxMemory)
    /\ pc' = "assign_multipart"
    /\ UNCHANGED <<other, req, cfg, given, branch, guard, dec, jsonContent, todo, local, results, files, err>>

(***************************************************************************)
(* The assignments of the switch: the *ParseError the decoder returned is  *)
(* stored in the named result err, of interface type error.                *)
(***************************************************************************)
\* the assignment of two results also storing a handle for every field
AssignResultsAndHandles ==
    /\ pc \in {"assign_json", "assign_urlencoded"}
    /\ results' = ret.results
    /\ files' = MkMap([k \in DOMAIN ret.results.m |-> <<FileHeader(Part(k, k, ""), FALSE)>>])
    /\ err' = ToError(ret.perr)
    /\ pc' = "done"
    /\ UNCHANGED <<other, req, cfg, given, branch, guard, dec, jsonContent, todo, local, ret>>

\* results, err = parseApplicationJSON(r.Body)
\* results, err = parseFormURLEncoded(r)
AssignResults ==
    /\ pc \in {"assign_json", "assign_urlencoded"}
    /\ results' = ret.results
    /\ err' = ToError(ret.perr)
    /\ pc' = "done"
    /\ UNCHANGED <<other, req, cfg, given, branch, guard, dec, jsonContent, todo, local, ret, files>>

\* results, files, err = parseFormMultipart(r, maxMemory)
AssignResultsAndFiles ==
    /\ pc = "assign_multipart"
    /\ results' = ret.results
    /\ files' = ret.files
    /\ err' = ToError(ret.perr)
    /\ pc' = "done"
    /\ UNCHANGED <<other, req, cfg, given, branch, guard, dec, jsonContent, todo, local, ret>>

Next ==
    \/ GetFormContent
    \/ SelectJSON
    \/ SelectURLEncoded
    \/ SelectMultipart
    \/ MissingContentType
    \/ UnsupportedContentType
    \/ DecodeFirst
    \/ DecodeSecond
    \/ ParseMapBegin
    \/ ParseMapField
    \/ ParseMapEnd
    \/ ParseFormURLEncoded
    \/ ParseFormMultipart
    \/ AssignResults
    \/ AssignResultsAndFiles

Spec == Init /\ [][Next]_vars

(***************************************************************************)
(* What the claims say of a request, read from what it was written from.   *)
(***************************************************************************)
Done == pc = "done"

StartsWithMultipart(ct) == \E n \in 0..Len(ct) : SubSeq(ct, 1, n) = "multipart/form-data"

\* the keys of a document, and the value of a key (that of its last member)
DocKeys(doc) == {doc.o[i][1] : i \in 1..Len(doc.o)}

DocValue(doc, k) ==
    LET last == CHOOSE i \in 1..Len(doc.o) :
                    /\ doc.o[i][1] = k
                    /\ \A j \in (i + 1)..Len(doc.o) : doc.o[j][1] # k
    IN  doc.o[last][2]

IsStrings(v) == v.t = "array" /\ \A i \in 1..Len(v.a) : v.a[i].t = "string"

WrongType(v) == v.t \in {"number", "bool", "null", "object"}
BadArray(v) == v.t = "array" /\ (Len(v.a) = 0 \/ ~IsStrings(v))
EmptyString(v) == v.t = "string" /\ v.s = ""

ValidValue(v) == ~WrongType(v) /\ ~BadArray(v) /\ ~EmptyString(v)

InvalidKeys(doc) == {k \in DocKeys(doc) : ~ValidValue(DocValue(doc, k))}

\* the body is one JSON object, followed by nothing but spaces, and the
\* whole of it is within the ceiling
SingleObject ==
    /\ given.kind = "json"
    /\ given.cut = -1
    /\ ~nonSpace(given.trailer)
    /\ Len(req.body) <= cfg.maxFormSize

\* the call failed with this status, returned no values and no files
FailedWith(status) ==
    /\ ErrNotNil(err)
    /\ ~err.ptr.nilptr
    /\ err.ptr.Status = status
    /\ results.nil
    /\ files.nil

(***************************************************************************)
(* C1: a request that is parsed successfully (a supported Content-Type and *)
(* a decoder that reports no error) returns the nil error: the caller's    *)
(* test err != nil is false.                                               *)
(***************************************************************************)
C1_SuccessReturnsNilError ==
    (Done /\ branch \in {"json", "urlencoded", "multipart"} /\ ret.perr.nilptr) => ~ErrNotNil(err)

(***************************************************************************)
(* C2: whenever the returned error is not nil, the returned values and     *)
(* files are both nil or empty.                                            *)
(***************************************************************************)
C2_ErrorMeansNoValues ==
    (Done /\ ErrNotNil(err)) => (MapLen(results) = 0 /\ MapLen(files) = 0)

(***************************************************************************)
(* C3: the switch takes the multipart case for every header value that     *)
(* starts with multipart/form-data, the JSON case only for the value       *)
(* application/json and the URL encoded case only for the value            *)
(* application/x-www-form-urlencoded.                                      *)
(***************************************************************************)
C3_Negotiation ==
    branch # "none" =>
        /\ StartsWithMultipart(req.ct) => branch = "multipart"
        /\ branch = "json" => req.ct = "application/json"
        /\ branch = "urlencoded" => req.ct = "application/x-www-form-urlencoded"

C3_Witness ==
    /\ branch = "multipart"
    /\ req.ct = "multipart/form-data; boundary=X"

(***************************************************************************)
(* C4: an empty header value, and any value that is neither of the two     *)
(* exact values nor starts with multipart/form-data, fails with status     *)
(* 415, no values and no files; the message says the header is required    *)
(* when the value is empty and names the rejected value otherwise.         *)
(***************************************************************************)
C4_Unsupported ==
    (/\ Done
     /\ req.ct \notin {"application/json", "application/x-www-form-urlencoded"}
     /\ ~StartsWithMultipart(req.ct))
    => /\ FailedWith(415)
       /\ req.ct = "" => err.ptr.Msg = "Content-Type header is required"
       /\ req.ct # "" => /\ err.ptr.Msg = "Content-Type header %s is unsupported"
                         /\ err.ptr.Field = req.ct

C4_Witness ==
    /\ Done
    /\ req.ct = "application/json; charset=utf-8"
    /\ err.ptr.Status = 415
    /\ err.ptr.Field = "application/json; charset=utf-8"

(***************************************************************************)
(* C5: for a body that is one non-empty JSON object whose values are all   *)
(* non-empty strings or non-empty arrays of strings, the returned values   *)
(* have exactly the object's keys; a string v is returned as <<v>> and an  *)
(* array as its elements, in order.                                        *)
(***************************************************************************)
ExpectedValues(v) == IF v.t = "string" THEN <<v.s>> ELSE [i \in 1..Len(v.a) |-> v.a[i].s]

C5_ValidObject ==
    (/\ Done
     /\ SingleObject
     /\ DocKeys(given.doc) # {}
     /\ InvalidKeys(given.doc) = {})
    => /\ ~results.nil
       /\ DOMAIN results.m = DocKeys(given.doc)
       /\ \A k \in DocKeys(given.doc) : results.m[k] = ExpectedValues(DocValue(given.doc, k))

C5_Witness ==
    /\ Done
    /\ SingleObject
    /\ given.doc = DObj(<<<<"b", JStr("x")>>, <<"a", JArr(<<JStr("x"), JStr("yz")>>)>>>>)
    /\ results.m = [a |-> <<"x", "yz">>, b |-> <<"x">>]

(***************************************************************************)
(* C6: when a field of the object is a number, a boolean, null or an       *)
(* object, the parse fails with status 400 and no values for any field,    *)
(* and the message names a rejected field: that field when it is the only  *)
(* one rejected, with the message that values must be string or []string.  *)
(***************************************************************************)
WrongTypeMsg ==
    "JSON object contains invalid value for field \"%s\", values must be string or []string types"

C6_WrongType ==
    \A k \in DocKeys(given.doc) :
        (Done /\ SingleObject /\ WrongType(DocValue(given.doc, k)))
        => /\ FailedWith(400)
           /\ err.ptr.Field \in InvalidKeys(given.doc)
           /\ err.ptr.Field = k => err.ptr.Msg = WrongTypeMsg
           /\ InvalidKeys(given.doc) = {k} => err.ptr.Field = k

C6_Witness ==
    /\ Done
    /\ SingleObject
    /\ given.doc = DObj(<<<<"a", JStr("x")>>, <<"b", JNum("5")>>>>)
    /\ err.ptr.Status = 400
    /\ err.ptr.Field = "b"

(***************************************************************************)
(* C7: when a field of the object is an empty array, or an array with an   *)
(* element that is not a string, the parse fails with status 400 and no    *)
(* values, and the message names a rejected field: that field when it is   *)
(* the only one rejected.                                                  *)
(***************************************************************************)
C7_BadArray ==
    \A k \in DocKeys(given.doc) :
        (Done /\ SingleObject /\ BadArray(DocValue(given.doc, k)))
        => /\ FailedWith(400)
           /\ err.ptr.Field \in InvalidKeys(given.doc)
           /\ err.ptr.Field = k =>
                err.ptr.Msg = (IF Len(DocValue(given.doc, k).a) = 0
                               THEN "JSON object contains invalid value for field \"%s\", cannot use an empty array"
                               ELSE "JSON object contains invalid array for field \"%s\", array values must be exclusively strings")
           /\ InvalidKeys(given.doc) = {k} => err.ptr.Field = k

C7_Witness ==
    /\ Done
    /\ SingleObject
    /\ given.doc = DObj(<<<<"a", JArr(<<JNull>>)>>, <<"b", JStr("x")>>>>)
    /\ err.ptr.Status = 400
    /\ err.ptr.Field = "a"
    /\ results.nil

(***************************************************************************)
(* C8: when a field of the object is the empty string, the parse fails     *)
(* with status 400 and no values for the other fields, and the message     *)
(* names a rejected field: that field when it is the only one rejected.    *)
(***************************************************************************)
C8_EmptyString ==
    \A k \in DocKeys(given.doc) :
        (Done /\ SingleObject /\ EmptyString(DocValue(given.doc, k)))
        => /\ FailedWith(400)
           /\ err.ptr.Field \in InvalidKeys(given.doc)
           /\ err.ptr.Field = k =>
                err.ptr.Msg = "JSON object contains invalid value for field \"%s\", cannot use an empty string"
           /\ InvalidKeys(given.doc) = {k} => err.ptr.Field = k

C8_Witness ==
    /\ Done
    /\ SingleObject
    /\ given.doc = DObj(<<<<"a", JStr("x")>>, <<"b", JStr("")>>>>)
    /\ err.ptr.Status = 400
    /\ err.ptr.Field = "b"
    /\ results.nil

(***************************************************************************)
(* C9: the body {} fails with status 400 and the message that the object   *)
(* contains no fields; it is not accepted as empty values.                 *)
(***************************************************************************)
C9_EmptyObject ==
    (Done /\ SingleObject /\ DocKeys(given.doc) = {})
    => /\ FailedWith(400)
       /\ err.ptr.Msg = "JSON object contains no fields"

C9_Witness ==
    /\ Done
    /\ req.body = "{}"
    /\ branch = "json"
    /\ err.ptr.Status = 400
    /\ results.nil

(***************************************************************************)
(* C10: a body whose first complete object is followed by anything but     *)
(* spaces fails with status 400 and the single-JSON-object message,        *)
(* whatever the object holds; an object followed by spaces only (the whole *)
(* body within the ceiling) is not rejected with that message.             *)
(***************************************************************************)
SingleObjectMsg == "Request body must only contain a single JSON object"

C10_TrailingContent ==
    (Done /\ given.kind = "json" /\ given.cut = -1)
    => /\ (nonSpace(given.trailer) /\ Len(Encode(given.doc, "")) <= cfg.maxFormSize)
            => (FailedWith(400) /\ err.ptr.Msg = SingleObjectMsg)
       /\ SingleObject => err.ptr.Msg # SingleObjectMsg

C10_Witness ==
    /\ Done
    /\ req.body = "{\"a\":\"\"}{\"b\":\"x\"}"
    /\ err.ptr.Msg = SingleObjectMsg
    /\ results.nil

(***************************************************************************)
(* C11: a JSON body whose top-level value is an array, a string, a number, *)
(* a boolean or null fails with status 400 and no values; it never fails   *)
(* with status 500 and is never accepted.                                  *)
(***************************************************************************)
NotObjectBodies == {"[]", "[\"x\"]", "\"x\"", "5", "1.5", "true", "false", "null"}

C11_TopLevelNotObject ==
    (Done /\ branch = "json" /\ req.body \in NotObjectBodies) => FailedWith(400)

(***************************************************************************)
(* C12: in the values returned for an accepted JSON body no field maps to  *)
(* an empty sequence, to <<"">>, or to a sequence holding an empty string. *)
(***************************************************************************)
C12_NoEmptyJSONValues ==
    (Done /\ branch = "json" /\ ~results.nil)
    => \A k \in DOMAIN results.m :
        /\ Len(results.m[k]) > 0
        /\ \A i \in 1..Len(results.m[k]) : results.m[k][i] # ""

(***************************************************************************)
(* What a form was written from: the keys of its pairs, and the values     *)
(* written under a key, in the order of the body.                          *)
(***************************************************************************)
PairKeysOf(pairs) == {pairs[i][1] : i \in 1..Len(pairs)}

RECURSIVE ValuesFor(_, _, _)
ValuesFor(pairs, i, k) ==
    IF i > Len(pairs) THEN <<>>
    ELSE (IF pairs[i][1] = k THEN <<pairs[i][2]>> ELSE <<>>) \o ValuesFor(pairs, i + 1, k)

\* the fields of a multipart body: its parts with a field name and without
\* a filename, as pairs <<field name, content>>
RECURSIVE ValueParts(_, _)
ValueParts(parts, i) ==
    IF i > Len(parts) THEN <<>>
    ELSE (IF parts[i].name # "" /\ parts[i].filename = "" THEN <<<<parts[i].name, parts[i].data>>>> ELSE <<>>)
         \o ValueParts(parts, i + 1)

NoAnswer(values) == values = <<>> \/ values = <<"">>

\* a URL-encoded request whose body was written from pairs
WellFormedURLEncoded ==
    /\ branch = "urlencoded"
    /\ given.kind = "urlencoded"
    /\ Len(req.body) <= cfg.maxFormSize

\* a multipart request whose header names the boundary the body is written
\* with, whose body ends with the closing boundary and is within the ceiling
WellFormedMultipart ==
    /\ branch = "multipart"
    /\ given.kind = "multipart"
    /\ req.ct \in {"multipart/form-data; boundary=X", "multipart/form-data;boundary=X"}
    /\ req.mp.boundary = "X"
    /\ req.mp.closed
    /\ MultipartSize(req.mp) <= cfg.maxFormWithFilesSize

\* the pairs submitted in the body of a well-formed form
Submitted ==
    IF branch = "urlencoded" THEN given.pairs ELSE ValueParts(req.mp.parts, 1)

(***************************************************************************)
(* C13: for a well-formed URL-encoded or multipart body, every field of    *)
(* the returned values has a value sequence that is neither empty nor      *)
(* <<"">>; a field submitted with no value or one empty value is absent    *)
(* from the values, and every other submitted field is kept.               *)
(***************************************************************************)
C13_UnansweredFieldsReduced ==
    (Done /\ (WellFormedURLEncoded \/ WellFormedMultipart))
    => /\ \A k \in DOMAIN results.m : ~NoAnswer(results.m[k])
       /\ \A k \in PairKeysOf(Submitted) :
            IF NoAnswer(ValuesFor(Submitted, 1, k))
            THEN k \notin DOMAIN results.m
            ELSE k \in DOMAIN results.m

(***************************************************************************)
(* C14: the values returned for a URL-encoded request are those of the     *)
(* same request with any other query string on its URL, and hold no key    *)
(* that the body does not hold.                                            *)
(***************************************************************************)
C14_QueryStringExcluded ==
    (Done /\ branch = "urlencoded")
    => /\ \A q \in Queries :
            results = parseFormURLEncoded([req EXCEPT !.query = q], cfg.maxFormSize).results
       /\ given.kind = "urlencoded" =>
            \A k \in DOMAIN results.m : k \in PairKeysOf(given.pairs)

(***************************************************************************)
(* C15: a JSON request whose body is longer than maxFormSize fails with    *)
(* status 413, the message that the body is too large and no values,       *)
(* whatever the body holds and wherever a complete value ends in it.       *)
(***************************************************************************)
TooLargeMsg == "Request body too large"

C15_JSONTooLarge ==
    (Done /\ branch = "json" /\ Len(req.body) > cfg.maxFormSize)
    => (FailedWith(413) /\ err.ptr.Msg = TooLargeMsg)

(***************************************************************************)
(* C16: a URL-encoded body longer than maxFormSize and a multipart body    *)
(* longer than maxFormWithFilesSize fail with status 413, no values and no *)
(* files.                                                                  *)
(***************************************************************************)
C16_FormTooLarge ==
    (/\ Done
     /\ \/ branch = "urlencoded" /\ Len(req.body) > cfg.maxFormSize
        \/ branch = "multipart" /\ MultipartSize(req.mp) > cfg.maxFormWithFilesSize)
    => FailedWith(413)

(***************************************************************************)
(* C17: a well-formed body of exactly as many bytes as the ceiling of its  *)
(* content type is parsed: the decoder returns no ParseError and returns   *)
(* the fields of the body.  No body of at most the ceiling is rejected     *)
(* with status 413.                                                        *)
(***************************************************************************)
\* the ceiling that the content type of the request falls under
Ceiling ==
    IF branch = "multipart" THEN cfg.maxFormWithFilesSize ELSE cfg.maxFormSize

WellFormedJSON ==
    /\ branch = "json"
    /\ given.kind = "json"
    /\ given.cut = -1
    /\ ~nonSpace(given.trailer)
    /\ DocKeys(given.doc) # {}
    /\ InvalidKeys(given.doc) = {}

C17_ExactCeilingAccepted ==
    (Done /\ branch \in {"json", "urlencoded", "multipart"})
    => /\ (/\ BodySize(req) = Ceiling
           /\ req.method = "POST"
           /\ req.query = ""
           /\ (WellFormedJSON \/ WellFormedURLEncoded \/ WellFormedMultipart))
          => /\ ret.perr.nilptr
             /\ ~results.nil
             /\ branch = "json" => DOMAIN results.m = DocKeys(given.doc)
             /\ branch # "json" =>
                    DOMAIN results.m = {k \in PairKeysOf(Submitted) : ~NoAnswer(ValuesFor(Submitted, 1, k))}
       /\ BodySize(req) <= Ceiling => err.ptr.Status # 413

C17_Witness ==
    /\ Done
    /\ req.body = "{\"a\":\"x\"}"
    /\ cfg.maxFormSize = 9
    /\ ret.perr.nilptr
    /\ results.m = [a |-> <<"x">>]

(***************************************************************************)
(* C18: the MaxBytesReader is given maxFormSize in the JSON and the        *)
(* URL-encoded case and maxFormWithFilesSize in the multipart case, the    *)
(* decoders read through that ceiling, maxMemory reaches the multipart     *)
(* decoder only, and a request GetFormContent handles is handled with the  *)
(* parameters (1048576, 10485760, 10485760).                               *)
(***************************************************************************)
C18_CeilingByContentType ==
    /\ branch \in {"json", "urlencoded"} => guard = cfg.maxFormSize
    /\ branch = "multipart" => guard = cfg.maxFormWithFilesSize
    /\ pc = "assign_urlencoded" =>
            LET r == parseFormURLEncoded(req, cfg.maxFormSize) IN
            ret = Return(r.results, NilMap, r.perr)
    /\ pc = "assign_multipart" =>
            ret = parseFormMultipart(req, cfg.maxFormWithFilesSize, cfg.maxMemory)
    /\ (given.entry = "GetFormContent" /\ pc # "GetFormContent") =>
            cfg = [maxFormSize |-> 1048576,
                   maxFormWithFilesSize |-> 10485760,
                   maxMemory |-> 10485760]

C18_Witness ==
    /\ Done
    /\ given.entry = "GetFormContent"
    /\ branch = "multipart"
    /\ guard = 10485760
    /\ ~files.nil

(***************************************************************************)
(* C19: a multipart request that cannot be parsed although its body is     *)
(* within the ceiling (no boundary in the header, a boundary the body is   *)
(* not written with, a body without its closing boundary) fails with       *)
(* status 400, no values and no files, and a message that names the        *)
(* multipart encoding.                                                     *)
(***************************************************************************)
MentionsMultipart(msg) ==
    \E i \in 1..(Len(msg) - 8) : SubSeq(msg, i, i + 8) \in {"multipart", "Multipart"}

UnparseableMultipart ==
    /\ branch = "multipart"
    /\ MultipartSize(req.mp) <= cfg.maxFormWithFilesSize
    /\ \/ req.ct \notin {"multipart/form-data; boundary=X", "multipart/form-data;boundary=X"}
       \/ req.mp.boundary # "X"
       \/ ~req.mp.closed

C19_MultipartParseError ==
    (Done /\ UnparseableMultipart)
    => /\ FailedWith(400)
       /\ MentionsMultipart(err.ptr.Msg)

(***************************************************************************)
(* The parts of a multipart body as the claims read them.                  *)
(***************************************************************************)
\* every part without a filename, as pairs <<field name, content>>
RECURSIVE PartsWithoutFilename(_, _)
PartsWithoutFilename(parts, i) ==
    IF i > Len(parts) THEN <<>>
    ELSE (IF parts[i].filename = "" THEN <<<<parts[i].name, parts[i].data>>>> ELSE <<>>)
         \o PartsWithoutFilename(parts, i + 1)

\* every part with a filename, as pairs <<field name, filename and size>>;
\* named is TRUE to leave out the parts without a field name
RECURSIVE PartsWithFilename(_, _, _)
PartsWithFilename(parts, i, named) ==
    IF i > Len(parts) THEN <<>>
    ELSE (IF parts[i].filename # "" /\ (named => parts[i].name # "")
          THEN <<<<parts[i].name, [Filename |-> parts[i].filename, Size |-> Len(parts[i].data)]>>>>
          ELSE <<>>)
         \o PartsWithFilename(parts, i + 1, named)

\* the handles of a field are those of its file parts, one each, in order
SameHandles(handles, fileparts) ==
    /\ Len(handles) = Len(fileparts)
    /\ \A i \in 1..Len(handles) :
        /\ handles[i].Filename = fileparts[i].Filename
        /\ handles[i].Size = fileparts[i].Size

\* a well-formed multipart request on a URL whose query string parses
AcceptableMultipart ==
    /\ WellFormedMultipart
    /\ ~ParseQuery(req.query).err

C21_NoFilesWithoutMultipart ==
    branch \in {"json", "urlencoded"}
    => /\ files.nil
       /\ MapLen(files) = 0
       /\ ret.files.nil

C21_Witness ==
    /\ Done
    /\ branch = "urlencoded"
    /\ req.body = "a=x&b=x"
    /\ results.m = [a |-> <<"x">>, b |-> <<"x">>]
    /\ files.nil

(***************************************************************************)
(* The values and the files of a request as functions of its header, its   *)
(* body and the three parameters: what a run of the parser on the same     *)
(* bytes returns.                                                          *)
(***************************************************************************)
JSONValues(body, maxFormSize) ==
    LET data == MaxBytesData(body, maxFormSize)
        readErr == MaxBytesErr(body, maxFormSize)
        first == Decode(data, readErr, 1, "map")
        second == Decode(data, readErr, first.scanp, "struct")
        content == DecodedMap(first.val)
    IN  IF first.err # "nil" \/ second.err # "EOF" \/ MapLen(content) = 0 THEN NilMap
        ELSE IF \E key \in DOMAIN content.m : ~FieldError(key, content.m[key]).nilptr THEN NilMap
        ELSE MkMap([key \in DOMAIN content.m |-> FieldValues(content.m[key])])

ValuesOfRequest(r, c) ==
    CASE Selected(r.ct) = "json" -> JSONValues(r.body, c.maxFormSize)
      [] Selected(r.ct) = "urlencoded" -> parseFormURLEncoded(r, c.maxFormSize).results
      [] Selected(r.ct) = "multipart" ->
            parseFormMultipart(r, c.maxFormWithFilesSize, c.maxMemory).results
      [] OTHER -> NilMap

FilesOfRequest(r, c) ==
    IF Selected(r.ct) = "multipart"
    THEN parseFormMultipart(r, c.maxFormWithFilesSize, c.maxMemory).files
    ELSE NilMap

(***************************************************************************)
(* C22: the values and the files a call returns are those every other run  *)
(* on the same header, body and parameters returns: the same fields, and   *)
(* for every field the same values in the same order.                      *)
(***************************************************************************)
C22_SameBodySameResult ==
    Done => /\ results = ValuesOfRequest(req, cfg)
            /\ files = FilesOfRequest(req, cfg)

C22_Witness ==
    /\ Done
    /\ req.body = "{\"b\":\"x\",\"a\":[\"x\",\"yz\"]}"
    /\ results.m = [a |-> <<"x", "yz">>, b |-> <<"x">>]

(***************************************************************************)
(* C23: parseApplicationJSON reports the error of the first of its checks  *)
(* that fails, in the order: decode of the first value, trailing content,  *)
(* object without fields, the fields.  A body cut short fails in the       *)
(* decode; an object followed by more than spaces gets the single-object   *)
(* message whatever it holds ({}{} too); an object without fields gets the *)
(* no-fields message; only then is a field named.  The positions of the    *)
(* call follow that order.                                                 *)
(***************************************************************************)
NoFieldsMsg == "JSON object contains no fields"

DecodeMsgs == {"Request body contains badly-formed JSON (at position %d)",
               "Request body contains badly-formed JSON",
               "Request body must not be empty"}

C23_CheckOrder ==
    /\ (Done /\ branch = "json" /\ given.kind = "json" /\ Len(req.body) <= cfg.maxFormSize)
       => IF given.cut >= 0 THEN err.ptr.Msg \in DecodeMsgs
          ELSE IF nonSpace(given.trailer) THEN err.ptr.Msg = SingleObjectMsg
          ELSE IF DocKeys(given.doc) = {} THEN err.ptr.Msg = NoFieldsMsg
          ELSE IF InvalidKeys(given.doc) # {}
               THEN /\ err.ptr.Field \in InvalidKeys(given.doc)
                    /\ err.ptr.Msg \notin DecodeMsgs \cup {SingleObjectMsg, NoFieldsMsg}
          ELSE ret.perr.nilptr
    /\ pc \in {"json_second", "json_map", "json_range"} => (dec > 1 /\ ret.perr.nilptr)
    /\ pc = "json_range" => MapLen(jsonContent) > 0

C23_Witness ==
    /\ Done
    /\ req.body = "{}{}"
    /\ Len(req.body) <= cfg.maxFormSize
    /\ err.ptr.Msg = SingleObjectMsg
    /\ results.nil

(***************************************************************************)
(* C24: when the decode of the first value fails, the call fails with      *)
(* status 400 and no values: a body without any byte but spaces gets the   *)
(* message that the body must not be empty, a body with a syntax error in  *)
(* its first value and a body that ends inside its first value get a       *)
(* badly-formed-JSON message.  None of them gets status 500 or values.     *)
(***************************************************************************)
\* bodies with a syntax error before their first value is complete
MalformedBodies == {"hello world", "{\"a\": value1}", "[1,]"}

\* bodies that end inside their first value
Truncated ==
    \/ given.kind = "json" /\ given.cut > 0
    \/ req.body = "tru"

BadlyFormedMsgs == {"Request body contains badly-formed JSON (at position %d)",
                    "Request body contains badly-formed JSON"}

C24_DecodeFailures ==
    (Done /\ branch = "json" /\ Len(req.body) <= cfg.maxFormSize)
    => /\ ~nonSpace(req.body) =>
            (FailedWith(400) /\ err.ptr.Msg = "Request body must not be empty")
       /\ req.body \in MalformedBodies =>
            (FailedWith(400) /\ err.ptr.Msg = "Request body contains badly-formed JSON (at position %d)")
       /\ Truncated =>
            (FailedWith(400) /\ err.ptr.Msg \in BadlyFormedMsgs)

C24_Witness ==
    /\ Done
    /\ req.body = "{\"a\": value1}"
    /\ err.ptr.Status = 400
    /\ err.ptr.Msg = "Request body contains badly-formed JSON (at position %d)"
    /\ err.ptr.Offset = 7

(***************************************************************************)
(* reduceUnansweredFields on its own: the range loop over a map, which     *)
(* visits the fields in an order the Go runtime chooses and deletes from   *)
(* the map it ranges over, run on a map and then once more on what is      *)
(* left.  local is the map, todo the fields not yet visited, results the   *)
(* map after the first run, given.values the map before it.                *)
(***************************************************************************)
MaxValues == 2

ReduceFields == {"a", "b", ""}

\* the maps handed to the function: a nil or empty value sequence, and
\* sequences of up to MaxValues values
ReduceMaps ==
    UNION {[fields -> SeqsUpTo({"", "x"}, MaxValues)] : fields \in SUBSET ReduceFields}

InitReduce ==
    /\ \E m \in ReduceMaps :
        /\ local = MkMap(m)
        /\ todo = DOMAIN m
        /\ given = Given("values", JNull, "", -1, <<>>)
                   @@ [entry |-> "reduceUnansweredFields", values |-> m]
    /\ req = Request("", "", "", "", NoMultipart)
    /\ cfg = NoConfig
    /\ pc = "reduce"
    /\ branch = "none"
    /\ guard = -1
    /\ dec = 1
    /\ jsonContent = NilMap
    /\ ret = NoReturn
    /\ results = NilMap
    /\ files = NilMap
    /\ err = NilError
    /\ other = Nobody

\* one iteration: delete(results, field) when the field is unanswered
ReduceField ==
    /\ pc \in {"reduce", "reduce_again"}
    /\ \E field \in todo :
        /\ local' = IF Unanswered(local.m[field])
                    THEN MkMap([f \in DOMAIN local.m \ {field} |-> local.m[f]])
                    ELSE local
        /\ todo' = todo \ {field}
    /\ UNCHANGED <<other, req, cfg, given, pc, branch, guard, dec, jsonContent, ret, results, files, err>>

\* the end of the first run; the function is called once more
ReduceEnd ==
    /\ pc = "reduce"
    /\ todo = {}
    /\ results' = local
    /\ todo' = DOMAIN local.m
    /\ pc' = "reduce_again"
    /\ UNCHANGED <<other, req, cfg, given, branch, guard, dec, jsonContent, local, ret, files, err>>

ReduceAgainEnd ==
    /\ pc = "reduce_again"
    /\ todo = {}
    /\ pc' = "reduced"
    /\ UNCHANGED <<other, req, cfg, given, branch, guard, dec, jsonContent, todo, local, ret, results, files, err>>

NextReduce == ReduceField \/ ReduceEnd \/ ReduceAgainEnd

SpecReduce == InitReduce /\ [][NextReduce]_vars

(***************************************************************************)
(* C25: one run of reduceUnansweredFields removes exactly the fields whose *)
(* value sequence is nil, empty or <<"">> and leaves every other field     *)
(* with its values as they were, in order, sequences of two or more values *)
(* with empty strings among them too; a second run changes nothing.        *)
(***************************************************************************)
C25_ReduceFrame ==
    /\ pc \in {"reduce_again", "reduced"} =>
        /\ DOMAIN results.m = {f \in DOMAIN given.values : given.values[f] \notin {<<>>, <<"">>}}
        /\ \A f \in DOMAIN results.m : results.m[f] = given.values[f]
        /\ results.m = reduceUnansweredFields(given.values)
    /\ pc \in {"reduce", "reduce_again"} =>
        \A f \in DOMAIN local.m : local.m[f] = given.values[f]
    /\ pc = "reduced" => local = results

C25_Witness ==
    /\ pc = "reduced"
    /\ given.values = [a |-> <<"", "x">>, b |-> <<"">>]
    /\ results.m = [a |-> <<"", "x">>]
    /\ local = results

(***************************************************************************)
(* C26: the positions of a call belong to one decoder, the one of the case *)
(* the switch took, and at each of them r.Body is wrapped with the ceiling *)
(* of that case; while r.Body is unwrapped nothing has been decoded and    *)
(* nothing returned by a decoder; in the cases of a missing and of an      *)
(* unsupported Content-Type r.Body stays unwrapped to the end.             *)
(***************************************************************************)
JSONPositions == {"json_first", "json_second", "json_map", "json_range", "assign_json"}
URLEncodedPositions == {"urlencoded", "assign_urlencoded"}
MultipartPositions == {"multipart", "assign_multipart"}

C26_OneDecoderBehindGuard ==
    /\ pc \in JSONPositions => (branch = "json" /\ guard = cfg.maxFormSize)
    /\ pc \in URLEncodedPositions => (branch = "urlencoded" /\ guard = cfg.maxFormSize)
    /\ pc \in MultipartPositions => (branch = "multipart" /\ guard = cfg.maxFormWithFilesSize)
    /\ branch # "json" => (dec = 1 /\ jsonContent = NilMap /\ local = NilMap)
    /\ guard = -1 => (dec = 1 /\ ret = NoReturn /\ results.nil /\ files.nil)
    /\ branch \in {"required", "unsupported"} => (guard = -1 /\ Done)
    /\ branch \in {"none", "required", "unsupported"} <=> guard = -1

C26_Witness ==
    /\ Done
    /\ branch = "unsupported"
    /\ req.ct = "text/plain"
    /\ req.body = "a=x"
    /\ guard = -1
    /\ ret = NoReturn

(***************************************************************************)
(* The *ParseError values a run on a request can return: more than one     *)
(* when the range loop of parseMapInterface can meet several invalid       *)
(* fields, one otherwise.                                                  *)
(***************************************************************************)
JSONErrors(body, maxFormSize) ==
    LET data == MaxBytesData(body, maxFormSize)
        readErr == MaxBytesErr(body, maxFormSize)
        first == Decode(data, readErr, 1, "map")
        second == Decode(data, readErr, first.scanp, "struct")
        content == DecodedMap(first.val)
        invalid == {key \in DOMAIN content.m : ~FieldError(key, content.m[key]).nilptr}
    IN  IF first.err # "nil" THEN {FirstDecodeError(first)}
        ELSE IF second.err # "EOF" THEN {SingleObjectError}
        ELSE IF MapLen(content) = 0 THEN {NoFieldsError}
        ELSE IF invalid # {} THEN {FieldError(key, content.m[key]) : key \in invalid}
        ELSE {NilParseError}

ErrorsOfRequest(r, c) ==
    CASE Selected(r.ct) = "json" -> JSONErrors(r.body, c.maxFormSize)
      [] Selected(r.ct) = "urlencoded" -> {parseFormURLEncoded(r, c.maxFormSize).perr}
      [] Selected(r.ct) = "multipart" ->
            {parseFormMultipart(r, c.maxFormWithFilesSize, c.maxMemory).perr}
      [] Selected(r.ct) = "required" -> {RequiredError}
      [] OTHER -> {UnsupportedError(getContentType(r.ct))}

(***************************************************************************)
(* Two concurrent calls of one function GetFormContentWithConfig returned, *)
(* on two requests.  The three parameters the function closes over are the *)
(* only state the calls share; everything else belongs to a call.  The     *)
(* variables hold the call that takes the next step, other the call that   *)
(* waits; Switch lets the other call run.                                  *)
(***************************************************************************)
ConcConfig == [maxFormSize |-> 20, maxFormWithFilesSize |-> 1000, maxMemory |-> 4]

ConcRequests ==
    {JSONRequest("{\"a\":\"x\"}"),
     JSONRequest("{\"a\":\"\",\"b\":5}"),
     JSONRequest("{\"a\":\"x\",\"b\":5}"),
     JSONRequest("{}"),
     JSONRequest("{\"a\":[\"x\",\"yz\"],\"b\":\"x\"}"),
     URLEncodedRequest("POST", "", "a=x&b="),
     MultipartRequest(MultipartHeader, "POST", "",
                      MultipartBody("X", <<Part("a", "", "x"), Part("f", "f.txt", "data")>>, TRUE)),
     Request("", "POST", "", "a=x", NoMultipart),
     Request("text/plain", "POST", "", "a=x", NoMultipart)}

ConcGiven(id) ==
    Given("concurrent", JNull, "", -1, <<>>) @@ [entry |-> "GetFormContentWithConfig", id |-> id]

\* a call before its first step
Waiting(id, r) ==
    [id |-> id, req |-> r, given |-> ConcGiven(id), pc |-> "start", branch |-> "none",
     guard |-> -1, dec |-> 1, jsonContent |-> NilMap, todo |-> {}, local |-> NilMap,
     ret |-> NoReturn, results |-> NilMap, files |-> NilMap, err |-> NilError]

InitConc ==
    /\ \E r1 \in ConcRequests, r2 \in ConcRequests :
        /\ req = r1
        /\ other = Waiting(2, r2)
    /\ cfg = ConcConfig
    /\ given = ConcGiven(1)
    /\ pc = "start"
    /\ branch = "none"
    /\ guard = -1
    /\ dec = 1
    /\ jsonContent = NilMap
    /\ todo = {}
    /\ local = NilMap
    /\ ret = NoReturn
    /\ results = NilMap
    /\ files = NilMap
    /\ err = NilError

\* the scheduler resuming the other call, every local of it restored, but
\* for the reader wrapped around its body, which the calls would share
SwitchSharedGuard ==
    /\ other.id # 0
    /\ other.pc # "done"
    /\ other' = [id |-> given.id, req |-> req, given |-> given, pc |-> pc, branch |-> branch,
                 guard |-> guard, dec |-> dec, jsonContent |-> jsonContent, todo |-> todo,
                 local |-> local, ret |-> ret, results |-> results, files |-> files, err |-> err]
    /\ req' = other.req
    /\ given' = other.given
    /\ pc' = other.pc
    /\ branch' = other.branch
    /\ guard' = IF other.guard = -1 THEN -1 ELSE guard
    /\ dec' = other.dec
    /\ jsonContent' = other.jsonContent
    /\ todo' = other.todo
    /\ local' = other.local
    /\ ret' = other.ret
    /\ results' = other.results
    /\ files' = other.files
    /\ err' = other.err
    /\ UNCHANGED cfg

\* the scheduler suspending the running call and resuming the other one
Switch ==
    /\ other.id # 0
    /\ other.pc # "done"
    /\ other' = [id |-> given.id, req |-> req, given |-> given, pc |-> pc, branch |-> branch,
                 guard |-> guard, dec |-> dec, jsonContent |-> jsonContent, todo |-> todo,
                 local |-> local, ret |-> ret, results |-> results, files |-> files, err |-> err]
    /\ req' = other.req
    /\ given' = other.given
    /\ pc' = other.pc
    /\ branch' = other.branch
    /\ guard' = other.guard
    /\ dec' = other.dec
    /\ jsonContent' = other.jsonContent
    /\ todo' = other.todo
    /\ local' = other.local
    /\ ret' = other.ret
    /\ results' = other.results
    /\ files' = other.files
    /\ err' = other.err
    /\ UNCHANGED cfg

NextConc ==
    \/ Switch
    \/ SelectJSON
    \/ SelectURLEncoded
    \/ SelectMultipart
    \/ MissingContentType
    \/ UnsupportedContentType
    \/ DecodeFirst
    \/ DecodeSecond
    \/ ParseMapBegin
    \/ ParseMapField
    \/ ParseMapEnd
    \/ ParseFormURLEncoded
    \/ ParseFormMultipart
    \/ AssignResults
    \/ AssignResultsAndFiles

SpecConc == InitConc /\ [][NextConc]_vars

(***************************************************************************)
(* C27: under every interleaving of the steps of two concurrent calls the  *)
(* parameters they share are never written, and each call returns what a   *)
(* run on its request alone returns: the same values, the same files and   *)
(* one of the same errors.                                                 *)
(***************************************************************************)
OutcomeAlone(r, res, fls, e) ==
    /\ res = ValuesOfRequest(r, cfg)
    /\ fls = FilesOfRequest(r, cfg)
    /\ e.ptr \in ErrorsOfRequest(r, cfg)

C27_ConcurrentCallsIndependent ==
    /\ cfg = ConcConfig
    /\ other.id # given.id
    /\ Done => OutcomeAlone(req, results, files, err)
    /\ other.pc = "done" => OutcomeAlone(other.req, other.results, other.files, other.err)

C27_Witness ==
    /\ Done
    /\ other.pc = "done"
    /\ given.id = 1
    /\ req.body = "{\"a\":[\"x\",\"yz\"],\"b\":\"x\"}"
    /\ err.ptr.Status = 413
    /\ other.branch = "multipart"
    /\ DOMAIN other.files.m = {"f"}

(***************************************************************************)
(* C28: for the three supported content types a call returns the values,   *)
(* the files and the error that the same request returns with any other    *)
(* method.                                                                 *)
(***************************************************************************)
AnyMethods == {"GET", "POST", "PUT", "PATCH", "DELETE"}

C28_MethodIndependent ==
    (Done /\ branch \in {"json", "urlencoded", "multipart"})
    => \A method \in AnyMethods :
        /\ results = ValuesOfRequest([req EXCEPT !.method = method], cfg)
        /\ files = FilesOfRequest([req EXCEPT !.method = method], cfg)
        /\ err.ptr \in ErrorsOfRequest([req EXCEPT !.method = method], cfg)

(***************************************************************************)
(* C29: no field of the values returned on success has the empty string as *)
(* its name, whichever decoder returned them.                              *)
(***************************************************************************)
C29_NonEmptyKeys ==
    (Done /\ ~results.nil) => "" \notin DOMAIN results.m

(***************************************************************************)
(* Two runs on the same JSON request, both returned.                       *)
(***************************************************************************)
TwoRunsOfOneBody ==
    /\ Done
    /\ other.pc = "done"
    /\ branch = "json"
    /\ other.req = req

(***************************************************************************)
(* C30 as stated: two runs on the same JSON body return the same           *)
(* ParseError, status, message and named field, also when the object has   *)
(* two or more invalid fields.                                             *)
(***************************************************************************)
C30_SameErrorEveryRun ==
    TwoRunsOfOneBody => err = other.err

(***************************************************************************)
(* C30, amended: two runs on the same JSON body return the same status;    *)
(* each returns one of the errors of the body, which is one error unless   *)
(* the object has several invalid fields, and then the error of any one of *)
(* them; runs that name the same field return the same ParseError.         *)
(***************************************************************************)
C30_SameStatusEveryRun ==
    TwoRunsOfOneBody
    => /\ err.ptr.Status = other.err.ptr.Status
       /\ err.ptr.nilptr = other.err.ptr.nilptr
       /\ err.ptr \in ErrorsOfRequest(req, cfg)
       /\ other.err.ptr \in ErrorsOfRequest(req, cfg)
       /\ Cardinality(ErrorsOfRequest(req, cfg)) = 1 => err = other.err
       /\ err.ptr.Field = other.err.ptr.Field => err = other.err

C30_Witness ==
    /\ TwoRunsOfOneBody
    /\ req.body = "{\"a\":\"\",\"b\":5}"
    /\ err.ptr.Status = 400
    /\ err.ptr.Field = "a"
    /\ other.err.ptr.Status = 400
    /\ other.err.ptr.Field = "b"

====
